---- MODULE Spec2Model ----
(***************************************************************************)
(* A model of the DataTable widget (src/src/app/server-table/page.tsx,     *)
(* lines 387-1091: the component the pages import from                     *)
(* "@/components/DataTable"), of the server-side demo page that drives it  *)
(* (same file, lines 1-386) and of the mock endpoint                       *)
(* (src/src/app/api/users/route.ts).                                       *)
(*                                                                         *)
(* JavaScript values are modelled as follows.                              *)
(*   - an optional value (a property that may be undefined) is a sequence  *)
(*     of length 0 (undefined) or 1 (the value);                           *)
(*   - a Date is the integer of its getTime(); NaN is the Invalid Date;    *)
(*   - a name, an e-mail address and a search text are sequences of        *)
(*     characters, a comma-separated list of roles is the sequence of its  *)
(*     items, and a number read by parseInt is optional: absent for NaN;   *)
(*   - a cell value of the createdAt column is a string; the string        *)
(*     "undefined" stands for a missing property;                          *)
(*   - ColumnFiltersState, an array of {id, value} with at most one entry  *)
(*     per column, is a function from column id to an optional value (the  *)
(*     order of the entries is read by nothing in the component).          *)
(***************************************************************************)
EXTENDS Integers, Sequences, FiniteSets, TLC

VARIABLES
    serverSide,     \* the serverSide prop: optional ServerSideConfig
    enablePagination, \* the enablePagination prop
    filters,        \* the filters prop: a sequence of FilterConfig
    data,           \* the data prop: the rows last supplied by the caller
    sorting,        \* useState<SortingState>
    columnFilters,  \* useState<ColumnFiltersState>
    pagination,     \* useState({pageIndex, pageSize})
    fired,          \* the serverSide callbacks invoked by the last event
    lastOp,         \* the last event handled and the state it found (history)
    enableRowSelection,     \* the enableRowSelection prop
    enableColumnVisibility, \* the enableColumnVisibility prop
    actionButtons,  \* the actionButtons prop: a sequence of ActionButton
    columnVisibility, \* useState<VisibilityState>
    rowSelection,   \* useState({}): the ids of the selected rows
    actionCalls,    \* the actionButtons handlers invoked by the last event
    caller,         \* the component rendering the DataTable
    inFlight,       \* ServerSideUsersTable: the fetches awaiting their response
    throwing,       \* the serverSide callbacks that throw when they are called
    thrown,         \* whether the handler of the last event threw to its caller
    passed,         \* the calls of serverSide callbacks made by the last event
    SAMPLE_USERS,   \* route.ts: the records of the mock endpoint
    response        \* route.ts: the last response of the endpoint, if any

vars == <<serverSide, enablePagination, filters, data, sorting, columnFilters,
          pagination, fired, lastOp, enableRowSelection, enableColumnVisibility,
          actionButtons, columnVisibility, rowSelection, actionCalls, caller,
          inFlight, throwing, thrown, passed, SAMPLE_USERS, response>>

\* the state of the endpoint
server == <<SAMPLE_USERS, response>>

-----------------------------------------------------------------------------
(* Optional values.                                                        *)

None == <<>>
Some(v) == <<v>>
IsSome(o) == o # <<>>
Get(o) == o[1]

\* a ?? b
Coalesce(o, d) == IF o = None THEN d ELSE o[1]

\* an optional boolean (manualPagination?: boolean)
OptBool == {None, Some(TRUE), Some(FALSE)}

-----------------------------------------------------------------------------
(* Bounds of the model.                                                    *)

\* the largest page index the pagination controls are followed to
MaxPageIndex == 1
\* the largest serverSide.pageCount the caller supplies
MaxPageCount == 2
\* the number of rows, beyond one page, of the long data set
ExtraRows == 1
\* the number of records of SAMPLE_USERS the endpoint starts with (100)
NumSampleUsers == 3
\* the number of records POST adds to them
MaxPosts == 1

(* The initial page size of the component.                                 *)
PageSize == 10

-----------------------------------------------------------------------------
(* Rows.                                                                   *)

Roles == <<"Admin", "User", "Moderator">>
Statuses == <<"Active", "Inactive">>

\* the strings new Date() parses, with their getTime()
DayOf == [s \in {"2024-01-01", "2024-01-02", "2024-01-03"} |->
            CASE s = "2024-01-01" -> 1
              [] s = "2024-01-02" -> 2
              [] s = "2024-01-03" -> 3]
DateStrings == <<"2024-01-01", "2024-01-02", "2024-01-03">>

\* the three rows of the scenarios
ScenarioRows ==
    << [id |-> 1, role |-> "Admin", status |-> "Active",   age |-> 30,
        createdAt |-> "2024-01-01"],
       [id |-> 2, role |-> "User",  status |-> "Inactive", age |-> 22,
        createdAt |-> "2024-01-02"],
       [id |-> 3, role |-> "Admin", status |-> "Active",   age |-> 45,
        createdAt |-> "2024-01-03"] >>

\* rows whose createdAt is missing, empty or not a date, among good ones
BadDateRows ==
    << [id |-> 1, role |-> "Admin", status |-> "Active",   age |-> 30,
        createdAt |-> "undefined"],
       [id |-> 2, role |-> "User",  status |-> "Inactive", age |-> 22,
        createdAt |-> "2024-01-02"],
       [id |-> 3, role |-> "Moderator", status |-> "Active", age |-> 45,
        createdAt |-> "not-a-date"],
       [id |-> 4, role |-> "User",  status |-> "Active",   age |-> 22,
        createdAt |-> ""] >>

\* the decimal digits of a number below 100
Digits(k) ==
    LET d == <<"0", "1", "2", "3", "4", "5", "6", "7", "8", "9">>
    IN  IF k < 10 THEN <<d[k + 1]>> ELSE <<d[(k \div 10) + 1], d[(k % 10) + 1]>>

\* SAMPLE_USERS, cut to n records
SampleUsers(n) ==
    [k \in 1..n |->
        [id |-> k,
         name |-> <<"U", "s", "e", "r", " ">> \o Digits(k),
         email |-> <<"u", "s", "e", "r">> \o Digits(k) \o
                   <<"@", "e", "x", "a", "m", "p", "l", "e", ".", "c", "o", "m">>,
         role |-> Roles[((k - 1) % 3) + 1],
         status |-> Statuses[((k - 1) % 2) + 1],
         age |-> 20 + ((k - 1) % 50),
         createdAt |-> DateStrings[((k - 1) % 3) + 1]]]

LongRows == SampleUsers(PageSize + ExtraRows)

-----------------------------------------------------------------------------
(* ModeGate: the effective delegation flag of each concern.                *)

\* serverSide?.f
OptChain(f) == IF serverSide = None THEN None ELSE Some(Get(serverSide)[f])

\* a || b, for a an optional boolean
OrElse(o, d) == IF o = None \/ Get(o) = FALSE THEN d ELSE Get(o)

\* serverSide?.manualX, itself optional
OptFlag(f) == IF serverSide = None THEN None ELSE Get(serverSide)[f]

isServerSide == OrElse(OptChain("enabled"), FALSE)

manualPagination == Coalesce(OptFlag("manualPagination"), isServerSide)

\* the flag derived with || in place of ??: an explicit false is lost
manualSorting_Or == OrElse(OptFlag("manualSorting"), isServerSide)

manualSorting == Coalesce(OptFlag("manualSorting"), isServerSide)
manualFiltering == Coalesce(OptFlag("manualFiltering"), isServerSide)

\* serverSide?.loading
Loading == OrElse(OptChain("loading"), FALSE)

\* pageCount: serverSide?.pageCount ?? -1
UnknownPageCount == -1
PageCountOption == Coalesce(OptChain("pageCount"), UnknownPageCount)

-----------------------------------------------------------------------------
(* FilterPredicateRegistry: the three filter functions of the component.   *)

\* JavaScript truthiness of a cell value (a string here)
Truthy(s) == s \notin {"", "undefined"}

\* new Date(s).getTime(), NaN when s is not a date
NaN == -1
NewDate(s) == IF s \in DOMAIN DayOf THEN DayOf[s] ELSE NaN

\* the select matching as a text search does: "Inactive" holds "active"
exactMatchFilter_Includes(row, columnId, value) ==
    /\ value # None
    /\ \/ row[columnId] = Get(value)
       \/ (row[columnId] = "Inactive" /\ Get(value) = "Active")

exactMatchFilter(row, columnId, value) ==
    value # None /\ row[columnId] = Get(value)

\* the multi-select with no test of an empty value: it then matches nothing
multiSelectFilter_NoEmptyTest(row, columnId, value) ==
    IF value = None
    THEN TRUE
    ELSE \E i \in 1..Len(Get(value)) : Get(value)[i] = row[columnId]

multiSelectFilter(row, columnId, value) ==
    IF value = None \/ Len(Get(value)) = 0
    THEN TRUE
    ELSE \E i \in 1..Len(Get(value)) : Get(value)[i] = row[columnId]

\* the date range with its bounds excluded (<= and >= for < and >)
dateRangeFilter_Exclusive(row, columnId, value) ==
    IF value = None \/ (Get(value).from = None /\ Get(value).to = None)
    THEN TRUE
    ELSE LET cellValue == row[columnId] IN
         IF ~Truthy(cellValue) THEN FALSE
         ELSE LET cellDate == NewDate(cellValue) IN
              IF cellDate = NaN THEN FALSE
              ELSE IF Get(value).from # None /\ cellDate <= Get(Get(value).from)
                   THEN FALSE
              ELSE IF Get(value).to # None /\ cellDate >= Get(Get(value).to)
                   THEN FALSE
              ELSE TRUE

\* the date range with no test of the parsed date: every comparison with the
\* Invalid Date is false, and the row passes
dateRangeFilter_NoNaNTest(row, columnId, value) ==
    IF value = None \/ (Get(value).from = None /\ Get(value).to = None)
    THEN TRUE
    ELSE LET cellValue == row[columnId] IN
         IF ~Truthy(cellValue) THEN FALSE
         ELSE LET cellDate == NewDate(cellValue) IN
              IF cellDate = NaN THEN TRUE
              ELSE IF Get(value).from # None /\ cellDate < Get(Get(value).from)
                   THEN FALSE
              ELSE IF Get(value).to # None /\ cellDate > Get(Get(value).to)
                   THEN FALSE
              ELSE TRUE

dateRangeFilter(row, columnId, value) ==
    IF value = None \/ (Get(value).from = None /\ Get(value).to = None)
    THEN TRUE
    ELSE LET cellValue == row[columnId] IN
         IF ~Truthy(cellValue) THEN FALSE
         ELSE LET cellDate == NewDate(cellValue) IN
              IF cellDate = NaN THEN FALSE
              ELSE IF Get(value).from # None /\ cellDate < Get(Get(value).from)
                   THEN FALSE
              ELSE IF Get(value).to # None /\ cellDate > Get(Get(value).to)
                   THEN FALSE
              ELSE TRUE

-----------------------------------------------------------------------------
(* ColumnFilterBinder: processedColumns.                                   *)

\* the columns prop of the demo pages
columns ==
    << [id |-> None, accessorKey |-> Some("name"),      filterFn |-> "auto"],
       [id |-> None, accessorKey |-> Some("email"),     filterFn |-> "auto"],
       [id |-> None, accessorKey |-> Some("role"),      filterFn |-> "auto"],
       [id |-> None, accessorKey |-> Some("status"),    filterFn |-> "auto"],
       [id |-> None, accessorKey |-> Some("age"),       filterFn |-> "auto"],
       [id |-> None, accessorKey |-> Some("createdAt"), filterFn |-> "auto"],
       [id |-> Some("actions"), accessorKey |-> None,   filterFn |-> "auto"] >>

FilterColumnIds(type) ==
    {filters[i].columnId : i \in {j \in 1..Len(filters) : filters[j].type = type}}

normalizedId(column) ==
    IF column.id # None THEN column.id ELSE column.accessorKey

\* the binder reading accessorKey alone, never id
ProcessColumn_AccessorKeyOnly(column) ==
    LET n == column.accessorKey
        has(type) == n # None /\ Get(n) # "" /\ Get(n) \in FilterColumnIds(type)
    IN  IF has("select") THEN [column EXCEPT !.filterFn = "exactMatch"]
        ELSE IF has("multiSelect") THEN [column EXCEPT !.filterFn = "multiSelect"]
        ELSE IF has("dateRange") THEN [column EXCEPT !.filterFn = "dateRange"]
        ELSE column

\* the binder testing the multiSelect declarations before the select ones
ProcessColumn_MultiSelectFirst(column) ==
    LET n == normalizedId(column)
        has(type) == n # None /\ Get(n) # "" /\ Get(n) \in FilterColumnIds(type)
    IN  IF has("multiSelect") THEN [column EXCEPT !.filterFn = "multiSelect"]
        ELSE IF has("select") THEN [column EXCEPT !.filterFn = "exactMatch"]
        ELSE IF has("dateRange") THEN [column EXCEPT !.filterFn = "dateRange"]
        ELSE column

ProcessColumn(column) ==
    LET n == normalizedId(column)
        has(type) == n # None /\ Get(n) # "" /\ Get(n) \in FilterColumnIds(type)
    IN  IF has("select") THEN [column EXCEPT !.filterFn = "exactMatch"]
        ELSE IF has("multiSelect") THEN [column EXCEPT !.filterFn = "multiSelect"]
        ELSE IF has("dateRange") THEN [column EXCEPT !.filterFn = "dateRange"]
        ELSE column

processedColumns == [i \in 1..Len(columns) |-> ProcessColumn(columns[i])]

\* table.getColumn(columnId): the index of the column, 0 when there is none
getColumn(columnId) ==
    LET hits == {i \in 1..Len(processedColumns) :
                    normalizedId(processedColumns[i]) = Some(columnId)}
    IN  IF hits = {} THEN 0 ELSE CHOOSE i \in hits : \A j \in hits : i <= j


-----------------------------------------------------------------------------
(* The row models of useReactTable, as the options of the call select      *)
(* them: getFilteredRowModel, getSortedRowModel and getPaginationRowModel  *)
(* are passed only for a concern that is not delegated.                    *)

Min(a, b) == IF a < b THEN a ELSE b
Max(a, b) == IF a > b THEN a ELSE b

\* the filter function bound to a column, applied to a row
ApplyFilterFn(fn, row, columnId, value) ==
    CASE fn = "exactMatch" -> exactMatchFilter(row, columnId, value)
      [] fn = "multiSelect" -> multiSelectFilter(row, columnId, value)
      [] fn = "dateRange" -> dateRangeFilter(row, columnId, value)

\* the columns with an entry in columnFilters (and a column to filter)
ActiveFilters ==
    {c \in DOMAIN columnFilters : columnFilters[c] # None /\ getColumn(c) # 0}

RowPasses(row, cf) ==
    \A c \in {d \in DOMAIN cf : cf[d] # None /\ getColumn(d) # 0} :
        ApplyFilterFn(processedColumns[getColumn(c)].filterFn, row, c, cf[c])

\* the filtered row model passed whatever manualFiltering is
FilteredRowsOf_AlwaysLocal(rows, cf) ==
    SelectSeq(rows, LAMBDA r : RowPasses(r, cf))

\* getFilteredRowModel: !manualFiltering ? getFilteredRowModel() : undefined
FilteredRowsOf(rows, cf) ==
    IF manualFiltering THEN rows
    ELSE SelectSeq(rows, LAMBDA r : RowPasses(r, cf))

FilteredRows == FilteredRowsOf(data, columnFilters)

\* a stable sort of rows by a numeric column: ties keep their order
SortBy(rows, columnId, desc) ==
    LET n == Len(rows)
        Before(i, j) ==
            \/ (~desc /\ rows[i][columnId] < rows[j][columnId])
            \/ (desc /\ rows[i][columnId] > rows[j][columnId])
            \/ (rows[i][columnId] = rows[j][columnId] /\ i < j)
        Rank(i) == Cardinality({j \in 1..n : Before(j, i)}) + 1
    IN  [k \in 1..n |-> rows[CHOOSE i \in 1..n : Rank(i) = k]]

\* getSortedRowModel: !manualSorting ? getSortedRowModel() : undefined
SortedRows ==
    IF manualSorting \/ sorting = <<>> THEN FilteredRows
    ELSE SortBy(FilteredRows, sorting[1].id, sorting[1].desc)

\* the slice starting one row late (pageIndex * pageSize + 1)
PageSlice_StartsLate(rows, pageIndex, pageSize) ==
    LET start == pageIndex * pageSize + 1
        end == Min(start + pageSize, Len(rows))
    IN  IF start >= Len(rows) THEN <<>> ELSE SubSeq(rows, start + 1, end)

\* rows.slice(pageIndex * pageSize, pageIndex * pageSize + pageSize)
PageSlice(rows, pageIndex, pageSize) ==
    LET start == pageIndex * pageSize
        end == Min(start + pageSize, Len(rows))
    IN  IF start >= Len(rows) THEN <<>> ELSE SubSeq(rows, start + 1, end)

\* getPaginationRowModel: enablePagination && !manualPagination ? ... : undefined
RowModel ==
    IF enablePagination /\ ~manualPagination
    THEN PageSlice(SortedRows, pagination.pageIndex, pagination.pageSize)
    ELSE SortedRows

\* table.getPageCount(): options.pageCount, given on every render
getPageCount == PageCountOption

\* table.getCanNextPage() / table.getCanPreviousPage()
getCanNextPage ==
    IF getPageCount = UnknownPageCount THEN TRUE
    ELSE IF getPageCount = 0 THEN FALSE
    ELSE pagination.pageIndex < getPageCount - 1

getCanPreviousPage == pagination.pageIndex > 0

\* table.setPageIndex(i): the index clamped to the pages there are
ClampPageIndex(i) ==
    IF getPageCount = UnknownPageCount THEN Max(0, i)
    ELSE Max(0, Min(i, getPageCount - 1))

\* column.getIsSorted()
getIsSorted(columnId) ==
    IF sorting # <<>> /\ sorting[1].id = columnId
    THEN (IF sorting[1].desc THEN "desc" ELSE "asc")
    ELSE "false"


-----------------------------------------------------------------------------
(* ServerSideUsersTable, the server-side demo page: fetchData.  Its        *)
(* pagination, sorting and columnFilters hold what the callbacks of the    *)
(* component passed to setPagination, setSorting and setColumnFilters; its *)
(* data, loading and totalPages are the data prop, serverSide.loading and  *)
(* serverSide.pageCount of the component it renders.                       *)

\* the keys of SearchParams
ParamKeys ==
    {"page", "pageSize", "sortBy", "sortOrder", "search", "status", "role",
     "roles", "startDate", "endDate", "minAge", "maxAge"}

\* the decimal strings of the requests, with the number each one spells
IntOf == [s \in {"0", "1", "2", "10", "25", "40"} |->
            CASE s = "0" -> 0
              [] s = "1" -> 1
              [] s = "2" -> 2
              [] s = "10" -> 10
              [] s = "25" -> 25
              [] s = "40" -> 40]

\* Number.prototype.toString, over the same strings
toString(n) == CHOOSE s \in DOMAIN IntOf : IntOf[s] = n

\* date.toISOString().split('T')[0]
toISODate(t) == DateStrings[t]

\* the most fetches the page has in flight at once
MaxInFlight == 2

\* fetchData, lines 58-95: the query of the page's state.  The value of the
\* "role" filter is the array of a multi-select, that of "createdAt" the
\* object of a date range, and the others are strings
URLSearchParams(pg, st, cf) ==
    LET value(c) == IF c \in DOMAIN cf THEN cf[c] ELSE None
        bound(b) == IF value("createdAt") = None THEN None
                    ELSE Get(value("createdAt"))[b]
    IN  [key \in ParamKeys |->
            CASE key = "page" -> Some(toString(pg.pageIndex))
              [] key = "pageSize" -> Some(toString(pg.pageSize))
              [] key = "sortBy" -> IF st # <<>> THEN Some(st[1].id) ELSE None
              [] key = "sortOrder" ->
                    IF st # <<>>
                    THEN Some(IF st[1].desc THEN "desc" ELSE "asc")
                    ELSE None
              [] key = "search" -> value("name")
              [] key = "status" -> value("status")
              [] key = "roles" -> value("role")
              [] key = "startDate" ->
                    IF bound("from") # None
                    THEN Some(toISODate(Get(bound("from")))) ELSE None
              [] key = "endDate" ->
                    IF bound("to") # None
                    THEN Some(toISODate(Get(bound("to")))) ELSE None
              [] OTHER -> None]

\* fetchData up to its await: setLoading(true), and the request is sent
fetchData(pg, st, cf) ==
    /\ Len(inFlight) < MaxInFlight
    /\ serverSide' = Some([Get(serverSide) EXCEPT !.loading = TRUE])
    /\ inFlight' = Append(inFlight, URLSearchParams(pg, st, cf))

\* what an event invokes: the serverSide callbacks and the handlers of
\* actionButtons.  A handler calls its callback last and catches nothing:
\* what the callback throws, the handler throws.  In the page a callback
\* sets its state, and the effect on [fetchData] of the next render fetches
Invoke(calls, actions) ==
    LET called == {calls[k].callback : k \in 1..Len(calls)} IN
    /\ passed' = calls
    /\ fired' = called
    /\ actionCalls' = actions
    /\ thrown' = (called \cap throwing # {})
    /\ IF caller = "ServerSideUsersTable" /\ called # {}
       THEN fetchData(pagination', sorting', columnFilters')
       ELSE UNCHANGED <<serverSide, inFlight>>

-----------------------------------------------------------------------------
(* TableStateController: the change handlers passed to useReactTable.      *)

\* serverSide?.onXChange is supplied
HasCallback(f) == serverSide # None /\ Get(serverSide)[f]

\* the sorting handler testing and calling the filters callback
SortingCallbacks_WrongCallback ==
    IF HasCallback("onColumnFiltersChange") THEN {"onColumnFiltersChange"} ELSE {}

SortingCallbacks ==
    IF HasCallback("onSortingChange") THEN {"onSortingChange"} ELSE {}

FiltersCallbacks ==
    IF HasCallback("onColumnFiltersChange") THEN {"onColumnFiltersChange"} ELSE {}

PaginationCallbacks ==
    IF HasCallback("onPaginationChange") THEN {"onPaginationChange"} ELSE {}

\* the calls of the callbacks named (one at most), with the value passed
Calls(names, value) ==
    [k \in 1..Cardinality(names) |->
        [callback |-> CHOOSE n \in names : TRUE, value |-> value]]

\* table.resetPageIndex(): setPageIndex of the initial page index
ResetPagination == [pagination EXCEPT !.pageIndex = ClampPageIndex(0)]

\* table._autoResetPageIndex(), the onChange of the core, filtered and sorted
\* row models: when one of them is computed anew and pagination is not
\* manual, the table calls its onPaginationChange with the reset index
autoResetPageIndex(recomputed) == recomputed /\ ~manualPagination

\* the sorting handler calling the callback before setSoring, so that a
\* callback that throws leaves the sorting as it was
onSortingChange_CallbackFirst(next) ==
    /\ sorting' = IF SortingCallbacks \cap throwing # {} THEN sorting ELSE next
    /\ UNCHANGED columnFilters
    /\ IF autoResetPageIndex(~manualSorting)
       THEN /\ pagination' = ResetPagination
            /\ Invoke(Calls(SortingCallbacks, next) \o
                      Calls(PaginationCallbacks, ResetPagination), <<>>)
       ELSE /\ UNCHANGED pagination
            /\ Invoke(Calls(SortingCallbacks, next), <<>>)

\* setSoring(updater), then serverSide.onSortingChange(updater(sorting)); the
\* sorted row model, when the table computes it, is computed anew
onSortingChange(next) ==
    /\ sorting' = next
    /\ UNCHANGED columnFilters
    /\ IF autoResetPageIndex(~manualSorting)
       THEN /\ pagination' = ResetPagination
            /\ Invoke(Calls(SortingCallbacks, next) \o
                      Calls(PaginationCallbacks, ResetPagination), <<>>)
       ELSE /\ UNCHANGED pagination
            /\ Invoke(Calls(SortingCallbacks, next), <<>>)

\* setColumnFilters(updater), then serverSide.onColumnFiltersChange(...); the
\* filtered row model, when the table computes it, is computed anew
onColumnFiltersChange(next) ==
    /\ columnFilters' = next
    /\ UNCHANGED sorting
    /\ IF autoResetPageIndex(~manualFiltering)
       THEN /\ pagination' = ResetPagination
            /\ Invoke(Calls(FiltersCallbacks, next) \o
                      Calls(PaginationCallbacks, ResetPagination), <<>>)
       ELSE /\ UNCHANGED pagination
            /\ Invoke(Calls(FiltersCallbacks, next), <<>>)

\* setPagination(updater), then serverSide.onPaginationChange(...)
onPaginationChange(next) ==
    /\ pagination' = next
    /\ UNCHANGED <<sorting, columnFilters>>
    /\ Invoke(Calls(PaginationCallbacks, next), <<>>)

\* totalItems of the page: what setTotalItems was last called with
TotalItems ==
    IF response = None THEN 0 ELSE Get(response).pagination.totalItems

\* the state of the component and its data, as an event finds them
Snapshot ==
    [sorting |-> sorting, columnFilters |-> columnFilters,
     pagination |-> pagination, data |-> data, loading |-> Loading,
     pageCount |-> PageCountOption, totalItems |-> TotalItems]

\* the record of an event: what it was, and the state it found
Op(kind, col, cleared) ==
    [kind |-> kind, col |-> col, cleared |-> cleared, before |-> Snapshot]

props == <<serverSide, enablePagination, filters, data, enableRowSelection,
          enableColumnVisibility, actionButtons, caller, throwing>>

\* the props an event of the component leaves as they are, whoever the caller
otherProps == <<enablePagination, filters, data, enableRowSelection,
               enableColumnVisibility, actionButtons, caller, throwing>>

\* the state no sorting, filter or pagination handler writes
local == <<columnVisibility, rowSelection>>

\* the props of row selection and of the toolbar
selectionProps == <<enableRowSelection, enableColumnVisibility, actionButtons>>

\* column.getCanHide(): enableHiding is true for every column
HideableColumns == {Get(normalizedId(columns[k])) : k \in 1..Len(columns)}

\* a caller other than the demo page, passing none of the selection props
PlainCaller ==
    /\ caller = "other"
    /\ throwing = {}
    /\ enableRowSelection = FALSE
    /\ enableColumnVisibility = TRUE
    /\ actionButtons = <<>>

-----------------------------------------------------------------------------
(* The events of the component.                                            *)

\* the columns whose header is a sort button (of the numeric ones)
SortableColumns == {"age"}

\* header button: column.toggleSorting(column.getIsSorted() === "asc")
ToggleSorting(c) ==
    /\ onSortingChange(<<[id |-> c, desc |-> (getIsSorted(c) = "asc")]>>)
    /\ lastOp' = Op("sort", c, FALSE)
    /\ UNCHANGED <<otherProps, local, server>>

\* footer: table.nextPage()
NextPage ==
    /\ enablePagination
    /\ getCanNextPage
    /\ pagination.pageIndex < MaxPageIndex
    /\ onPaginationChange([pagination EXCEPT
            !.pageIndex = ClampPageIndex(pagination.pageIndex + 1)])
    /\ lastOp' = Op("page", "next", FALSE)
    /\ UNCHANGED <<otherProps, local, server>>

\* footer: table.previousPage()
PreviousPage ==
    /\ enablePagination
    /\ getCanPreviousPage
    /\ onPaginationChange([pagination EXCEPT
            !.pageIndex = ClampPageIndex(pagination.pageIndex - 1)])
    /\ lastOp' = Op("page", "previous", FALSE)
    /\ UNCHANGED <<otherProps, local, server>>

\* footer: table.setPageIndex(0)
FirstPage ==
    /\ enablePagination
    /\ getCanPreviousPage
    /\ onPaginationChange([pagination EXCEPT !.pageIndex = ClampPageIndex(0)])
    /\ lastOp' = Op("page", "first", FALSE)
    /\ UNCHANGED <<otherProps, local, server>>

\* footer: table.setPageIndex(table.getPageCount() - 1)
LastPage ==
    /\ enablePagination
    /\ getCanNextPage
    /\ onPaginationChange([pagination EXCEPT
            !.pageIndex = ClampPageIndex(getPageCount - 1)])
    /\ lastOp' = Op("page", "last", FALSE)
    /\ UNCHANGED <<otherProps, local, server>>

\* the declarations of one type whose column exists (renderFilter)
Rendered(type) ==
    {i \in 1..Len(filters) :
        filters[i].type = type /\ getColumn(filters[i].columnId) # 0}

\* column.setFilterValue(value): an undefined value removes the entry
setFilterValue(c, value) ==
    onColumnFiltersChange([columnFilters EXCEPT ![c] = value])

\* case "text": onChange of the Input, which is disabled while loading;
\* the library removes the filter of an empty string
TextChange(i, v) ==
    LET c == filters[i].columnId IN
    /\ ~Loading
    /\ v # Coalesce(columnFilters[c], <<>>)
    /\ setFilterValue(c, IF v = <<>> THEN None ELSE Some(v))
    /\ lastOp' = Op("text", c, v = <<>>)
    /\ UNCHANGED <<otherProps, local, server>>

\* the select keeping "all" as a filter value
SelectValue_KeepsAll(v) == Some(v)

\* value === "all" ? undefined : value
SelectValue(v) == IF v = "all" THEN None ELSE Some(v)

\* case "select": onValueChange
SelectChange(i, v) ==
    LET c == filters[i].columnId IN
    /\ v # Coalesce(columnFilters[c], "all")
    /\ setFilterValue(c, SelectValue(v))
    /\ lastOp' = Op("select", c, v = "all")
    /\ UNCHANGED <<otherProps, local, server>>

\* the sequence s without the elements equal to v
Without(s, v) == SelectSeq(s, LAMBDA x : x # v)

Contains(s, v) == \E k \in 1..Len(s) : s[k] = v

\* the multi-select storing an empty array when the last option is unticked
MultiSelectValue_KeepsEmpty(newValue) == Some(newValue)

\* newValue.length > 0 ? newValue : undefined
MultiSelectValue(newValue) ==
    IF Len(newValue) > 0 THEN Some(newValue) ELSE None

\* case "multiSelect": onCheckedChange of the option's checkbox
MultiSelectToggle(i, option) ==
    LET c == filters[i].columnId
        currentFilterValue == Coalesce(columnFilters[c], <<>>)
        checked == ~Contains(currentFilterValue, option)
    IN  /\ IF checked
           THEN setFilterValue(c, Some(Append(currentFilterValue, option)))
           ELSE setFilterValue(c, MultiSelectValue(Without(currentFilterValue, option)))
        /\ lastOp' = Op("multiSelect", c,
                        ~checked /\ Without(currentFilterValue, option) = <<>>)
        /\ UNCHANGED <<otherProps, local, server>>

\* case "dateRange": Calendar onSelect(date), date a range or undefined
DateRangeSelect(i, date) ==
    LET c == filters[i].columnId IN
    /\ date # columnFilters[c]
    /\ setFilterValue(c, date)
    /\ lastOp' = Op("dateRange", c, date = None)
    /\ UNCHANGED <<otherProps, local, server>>

\* case "dateRange": the Clear button, shown when a bound is set
DateRangeClear(i) ==
    LET c == filters[i].columnId
        dateRangeValue == Coalesce(columnFilters[c], [from |-> None, to |-> None])
    IN  /\ dateRangeValue.from # None \/ dateRangeValue.to # None
        /\ setFilterValue(c, None)
        /\ lastOp' = Op("dateRangeClear", c, TRUE)
        /\ UNCHANGED <<otherProps, local, server>>

\* the caller renders the component with another data array: the core row
\* model is computed anew
SetData(d) ==
    /\ d # data
    /\ data' = d
    /\ UNCHANGED <<enablePagination, filters, sorting, columnFilters,
                   selectionProps, caller, throwing, local, server>>
    /\ IF autoResetPageIndex(TRUE)
       THEN /\ pagination' = ResetPagination
            /\ Invoke(Calls(PaginationCallbacks, ResetPagination), <<>>)
       ELSE /\ UNCHANGED pagination
            /\ Invoke(<<>>, <<>>)
    /\ lastOp' = Op("data", "", FALSE)

\* the caller renders the component with another serverSide.pageCount
SetPageCount(n) ==
    /\ serverSide # None
    /\ n # Get(serverSide).pageCount
    /\ serverSide' = Some([Get(serverSide) EXCEPT !.pageCount = n])
    /\ fired' = {}
    /\ passed' = <<>>
    /\ thrown' = FALSE
    /\ actionCalls' = <<>>
    /\ lastOp' = Op("pageCount", "", FALSE)
    /\ UNCHANGED <<otherProps, sorting, columnFilters, pagination, local,
                   inFlight, server>>

\* the caller renders the component with another filters prop
SetFilters(f) ==
    /\ f # filters
    /\ filters' = f
    /\ Invoke(<<>>, <<>>)
    /\ lastOp' = Op("filters", "", FALSE)
    /\ UNCHANGED <<enablePagination, data, sorting, columnFilters,
                   pagination, selectionProps, caller, throwing, local,
                   server>>

-----------------------------------------------------------------------------
(* Row selection, column visibility and the toolbar.                       *)

\* row.id, by the default getRowId: the index of the row in data (the rows
\* of a data array differ from one another: each carries its id)
RowId(row) == (CHOOSE k \in 1..Len(data) : data[k] = row) - 1

\* row.getIsSelected()
getIsSelected(row) == RowId(row) \in rowSelection

\* the selected rows of the core row model, filtered out or not
selectedData_Unfiltered == SelectSeq(data, getIsSelected)

\* table.getFilteredSelectedRowModel().rows.map((row) => row.original)
selectedData == SelectSeq(FilteredRows, getIsSelected)

\* table.getIsAllPageRowsSelected()
getIsAllPageRowsSelected ==
    /\ Len(RowModel) > 0
    /\ \A k \in 1..Len(RowModel) : getIsSelected(RowModel[k])

\* column.getIsVisible()
getIsVisible(c) == Coalesce(columnVisibility[c], TRUE)

\* the row checkbox invoking the pagination callback
ToggleSelected_Notifies(k) ==
    /\ enableRowSelection
    /\ ~Loading
    /\ k \in 1..Len(RowModel)
    /\ LET id == RowId(RowModel[k]) IN
        rowSelection' = IF id \in rowSelection
                        THEN rowSelection \ {id}
                        ELSE rowSelection \cup {id}
    /\ Invoke(Calls(PaginationCallbacks, pagination), <<>>)
    /\ lastOp' = Op("selection", "row", FALSE)
    /\ UNCHANGED <<otherProps, sorting, columnFilters, pagination,
                   columnVisibility, server>>

\* the checkbox of a row (disabled, and not rendered, while loading):
\* row.toggleSelected(!!value)
ToggleSelected(k) ==
    /\ enableRowSelection
    /\ ~Loading
    /\ k \in 1..Len(RowModel)
    /\ LET id == RowId(RowModel[k]) IN
        rowSelection' = IF id \in rowSelection
                        THEN rowSelection \ {id}
                        ELSE rowSelection \cup {id}
    /\ Invoke(<<>>, <<>>)
    /\ lastOp' = Op("selection", "row", FALSE)
    /\ UNCHANGED <<otherProps, sorting, columnFilters, pagination,
                   columnVisibility, server>>

\* the checkbox of the header: table.toggleAllPageRowsSelected(!!value)
ToggleAllPageRowsSelected ==
    /\ enableRowSelection
    /\ LET ids == {RowId(RowModel[k]) : k \in 1..Len(RowModel)} IN
        rowSelection' = IF getIsAllPageRowsSelected
                        THEN rowSelection \ ids
                        ELSE rowSelection \cup ids
    /\ Invoke(<<>>, <<>>)
    /\ lastOp' = Op("selection", "page", FALSE)
    /\ UNCHANGED <<otherProps, sorting, columnFilters, pagination,
                   columnVisibility, server>>

\* the Columns menu clearing the row selection with the change it makes
ToggleVisibility_ClearsSelection(c) ==
    /\ enableColumnVisibility
    /\ c \in HideableColumns
    /\ columnVisibility' = [columnVisibility EXCEPT ![c] = Some(~getIsVisible(c))]
    /\ rowSelection' = {}
    /\ Invoke(<<>>, <<>>)
    /\ lastOp' = Op("visibility", c, FALSE)
    /\ UNCHANGED <<otherProps, sorting, columnFilters, pagination, server>>

\* the Columns menu: column.toggleVisibility(!!value)
ToggleVisibility(c) ==
    /\ enableColumnVisibility
    /\ c \in HideableColumns
    /\ columnVisibility' = [columnVisibility EXCEPT ![c] = Some(~getIsVisible(c))]
    /\ Invoke(<<>>, <<>>)
    /\ lastOp' = Op("visibility", c, FALSE)
    /\ UNCHANGED <<otherProps, sorting, columnFilters, pagination,
                   rowSelection, server>>

\* the rows of TableBody that show no row of the data
Placeholder == [kind |-> "loading", original |-> None]
NoResults == [kind |-> "empty", original |-> None]

\* TableBody with one placeholder whatever the page size
TableBody_OnePlaceholder ==
    IF Loading THEN <<Placeholder>>
    ELSE IF Len(RowModel) > 0
    THEN [k \in 1..Len(RowModel) |-> [kind |-> "row", original |-> Some(RowModel[k])]]
    ELSE <<NoResults>>

\* TableBody: the loading rows, the rows of the row model, or "No results"
TableBody ==
    IF Loading THEN [i \in 1..pagination.pageSize |-> Placeholder]
    ELSE IF Len(RowModel) > 0
    THEN [k \in 1..Len(RowModel) |-> [kind |-> "row", original |-> Some(RowModel[k])]]
    ELSE <<NoResults>>

\* action.disabled?.(selectedData), for the one disabled function of the
\* pages: (selectedRows) => selectedRows.length === 0
Disabled(i) ==
    actionButtons[i].disabled # None /\ Len(selectedData) = 0

\* the button of a bulk action, rendered when selectedRows.length > 0:
\* action.onClick(selectedData).  "Delete Selected" of the page refetches
ClickAction(i) ==
    /\ i \in 1..Len(actionButtons)
    /\ Len(selectedData) > 0
    /\ ~Disabled(i)
    /\ fired' = {}
    /\ passed' = <<>>
    /\ thrown' = FALSE
    /\ actionCalls' = <<[action |-> i, rows |-> selectedData]>>
    /\ IF caller = "ServerSideUsersTable" /\ actionButtons[i].label = "Delete Selected"
       THEN fetchData(pagination, sorting, columnFilters)
       ELSE UNCHANGED <<serverSide, inFlight>>
    /\ lastOp' = Op("action", actionButtons[i].label, FALSE)
    /\ UNCHANGED <<otherProps, sorting, columnFilters, pagination, local,
                   server>>

-----------------------------------------------------------------------------
(* The mock endpoint (route.ts).                                           *)

\* the state of the component
widget == <<props, sorting, columnFilters, pagination, fired, lastOp, local,
            actionCalls, inFlight, thrown, passed>>

\* the keys whose value is modelled as a sequence
TextKeys == {"search", "roles"}

\* parseInt(s): absent for NaN
parseInt(s) == IF s \in DOMAIN IntOf THEN Some(IntOf[s]) ELSE None

\* if (value) params[key] = value: an empty value is dropped
parseSearchParams(searchParams) ==
    [key \in ParamKeys |->
        IF searchParams[key] = None THEN None
        ELSE IF key \in TextKeys /\ Get(searchParams[key]) = <<>> THEN None
        ELSE IF key \notin TextKeys /\ Get(searchParams[key]) = "" THEN None
        ELSE searchParams[key]]

\* String.prototype.toLowerCase over the capitals of the names and searches
toLowerCase(str) ==
    LET lower == [c \in {"U", "S", "E", "R", "N"} |->
                    CASE c = "U" -> "u"
                      [] c = "S" -> "s"
                      [] c = "E" -> "e"
                      [] c = "R" -> "r"
                      [] c = "N" -> "n"]
    IN  [k \in 1..Len(str) |->
            IF str[k] \in DOMAIN lower THEN lower[str[k]] ELSE str[k]]

\* String.prototype.includes
includes(str, search) ==
    \E k \in 0..(Len(str) - Len(search)) :
        SubSeq(str, k + 1, k + Len(search)) = search

\* a < b on Dates: false when either is the Invalid Date
DateLess(a, b) == a # NaN /\ b # NaN /\ a < b

filterUsers(users, params) ==
    LET bySearch ==
            IF params.search = None THEN users
            ELSE LET search == toLowerCase(Get(params.search)) IN
                 SelectSeq(users, LAMBDA user :
                    \/ includes(toLowerCase(user.name), search)
                    \/ includes(toLowerCase(user.email), search))
        byStatus ==
            IF params.status = None THEN bySearch
            ELSE SelectSeq(bySearch, LAMBDA user : user.status = Get(params.status))
        byRole ==
            IF params.role = None THEN byStatus
            ELSE SelectSeq(byStatus, LAMBDA user : user.role = Get(params.role))
        byRoles ==
            IF params.roles = None THEN byRole
            ELSE LET selectedRoles == Get(params.roles) IN
                 SelectSeq(byRole, LAMBDA user : Contains(selectedRoles, user.role))
        byDate ==
            IF params.startDate = None /\ params.endDate = None THEN byRoles
            ELSE SelectSeq(byRoles, LAMBDA user :
                    LET userDate == NewDate(user.createdAt) IN
                    /\ ~(/\ params.startDate # None
                         /\ DateLess(userDate, NewDate(Get(params.startDate))))
                    /\ ~(/\ params.endDate # None
                         /\ DateLess(NewDate(Get(params.endDate)), userDate)))
        byAge ==
            IF params.minAge = None /\ params.maxAge = None THEN byDate
            ELSE LET minAge == IF params.minAge # None
                               THEN parseInt(Get(params.minAge)) ELSE Some(0)
                     maxAge == IF params.maxAge # None
                               THEN parseInt(Get(params.maxAge)) ELSE Some(999)
                 IN  SelectSeq(byDate, LAMBDA user :
                        /\ minAge # None /\ user.age >= Get(minAge)
                        /\ maxAge # None /\ user.age <= Get(maxAge))
    IN  byAge

\* the order of localeCompare among the role names
RoleRank == [r \in {"Admin", "Moderator", "User"} |->
                CASE r = "Admin" -> 1
                  [] r = "Moderator" -> 2
                  [] r = "User" -> 3]

\* the comparator of sortUsers on the columns the requests sort by
Compare(a, b, sortBy) ==
    CASE sortBy = "age" -> a.age - b.age
      [] sortBy = "role" -> RoleRank[a.role] - RoleRank[b.role]

Reverse(seq) == [k \in 1..Len(seq) |-> seq[Len(seq) + 1 - k]]

\* desc sorting with the comparator negated: ties keep their order
sortUsers_NegatedComparator(users, sortBy, sortOrder) ==
    IF sortBy = None THEN users
    ELSE LET n == Len(users)
             sign == IF sortOrder = Some("desc") THEN -1 ELSE 1
             Before(i, j) ==
                \/ sign * Compare(users[i], users[j], Get(sortBy)) < 0
                \/ (Compare(users[i], users[j], Get(sortBy)) = 0 /\ i < j)
             Rank(i) == Cardinality({j \in 1..n : Before(j, i)}) + 1
         IN  [k \in 1..n |-> users[CHOOSE i \in 1..n : Rank(i) = k]]

\* [...users].sort(...) is stable; desc reverses the sorted array
sortUsers(users, sortBy, sortOrder) ==
    IF sortBy = None THEN users
    ELSE LET n == Len(users)
             Before(i, j) ==
                \/ Compare(users[i], users[j], Get(sortBy)) < 0
                \/ (Compare(users[i], users[j], Get(sortBy)) = 0 /\ i < j)
             Rank(i) == Cardinality({j \in 1..n : Before(j, i)}) + 1
             sorted == [k \in 1..n |-> users[CHOOSE i \in 1..n : Rank(i) = k]]
         IN  IF sortOrder = Some("desc") THEN Reverse(sorted) ELSE sorted

\* Math.ceil(a / b), b positive
Ceil(a, b) == (a + b - 1) \div b

\* Array.prototype.slice(start, end), start and end not negative
slice(arr, start, end) ==
    IF start >= Len(arr) THEN <<>> ELSE SubSeq(arr, start + 1, Min(end, Len(arr)))

\* the body GET answers a query with; none for a query whose page or
\* pageSize is not a number
ApiResponse(searchParams) ==
    LET params == parseSearchParams(searchParams)
        page == parseInt(Coalesce(params.page, "0"))
        pageSize == parseInt(Coalesce(params.pageSize, "10"))
    IN  IF page = None \/ pageSize = None \/ Get(pageSize) <= 0 THEN None
        ELSE CHOOSE r \in
            {LET filteredUsers == u
                 totalItems == Len(filteredUsers)
                 totalPages == Ceil(totalItems, Get(pageSize))
                 startIndex == Get(page) * Get(pageSize)
                 endIndex == startIndex + Get(pageSize)
             IN  Some(
                    [status |-> 200,
                     data |-> slice(filteredUsers, startIndex, endIndex),
                     pagination |->
                        [page |-> Get(page), pageSize |-> Get(pageSize),
                         totalItems |-> totalItems, totalPages |-> totalPages,
                         hasNextPage |-> Get(page) < totalPages - 1,
                         hasPreviousPage |-> Get(page) > 0],
                     filters |-> params]) :
             u \in {sortUsers(filterUsers(SAMPLE_USERS, params),
                              params.sortBy, params.sortOrder)}} : TRUE

\* GET /api/users, for a query whose page and pageSize are numbers
GET(searchParams) ==
    \E r \in {ApiResponse(searchParams)} :
        /\ r # None
        /\ response' = r
        /\ UNCHANGED <<SAMPLE_USERS, widget>>

\* POST /api/users with a JSON body: {id: length + 1, ...body, createdAt}
POST(body, today) ==
    /\ Len(SAMPLE_USERS) < NumSampleUsers + MaxPosts
    /\ LET newUser ==
            [id |-> Coalesce(body.id, Len(SAMPLE_USERS) + 1),
             name |-> body.name, email |-> body.email, role |-> body.role,
             status |-> body.status, age |-> body.age,
             createdAt |-> today]
       IN  /\ SAMPLE_USERS' = Append(SAMPLE_USERS, newUser)
           /\ response' = Some([status |-> 201, data |-> newUser])
    /\ UNCHANGED widget

\* SAMPLE_USERS.findIndex(user => user.id === id): the first record with
\* the id, 0 standing for -1.  An id that is absent, is NaN or is a string
\* is strictly equal to no id of a record
findIndex(id) ==
    IF id = None \/ ~\E k \in 1..Len(SAMPLE_USERS) : SAMPLE_USERS[k].id = Get(id)
    THEN 0
    ELSE CHOOSE k \in 1..Len(SAMPLE_USERS) :
            /\ SAMPLE_USERS[k].id = Get(id)
            /\ \A j \in 1..(k - 1) : SAMPLE_USERS[j].id # Get(id)

NotFound == Some([status |-> 404, data |-> [error |-> "User not found"]])

\* {...SAMPLE_USERS[userIndex], ...updateData}: the fields of the body
\* other than id replace those of the record
Merged(user, body) ==
    [user EXCEPT !.status = Coalesce(body.status, @),
                 !.age = Coalesce(body.age, @),
                 !.createdAt = Coalesce(body.createdAt, @)]

\* PUT spreading the whole body, its id included, over the record
PUT_SpreadsBody(body) ==
    \E userIndex \in {findIndex(IF body.quoted THEN None ELSE body.id)} :
        /\ IF userIndex = 0
           THEN /\ response' = NotFound
                /\ UNCHANGED SAMPLE_USERS
           ELSE \E user \in {[Merged(SAMPLE_USERS[userIndex], body)
                                EXCEPT !.id = Get(body.id) + 1]} :
                /\ SAMPLE_USERS' = [SAMPLE_USERS EXCEPT ![userIndex] = user]
                /\ response' = Some([status |-> 200, data |-> user])
        /\ UNCHANGED widget

\* PUT /api/users with a JSON body {id, ...updateData}; body.quoted: the id
\* of the body is a string
PUT(body) ==
    \E userIndex \in {findIndex(IF body.quoted THEN None ELSE body.id)} :
        /\ IF userIndex = 0
           THEN /\ response' = NotFound
                /\ UNCHANGED SAMPLE_USERS
           ELSE \E user \in {Merged(SAMPLE_USERS[userIndex], body)} :
                /\ SAMPLE_USERS' = [SAMPLE_USERS EXCEPT ![userIndex] = user]
                /\ response' = Some([status |-> 200, data |-> user])
        /\ UNCHANGED widget

\* DELETE /api/users?id=...: parseInt(searchParams.get('id') || '0'), then
\* SAMPLE_USERS.splice(userIndex, 1)
DELETE(id) ==
    \E userIndex \in {findIndex(parseInt(IF id \in {None, Some("")}
                                         THEN "0" ELSE Get(id)))} :
        /\ IF userIndex = 0
           THEN /\ response' = NotFound
                /\ UNCHANGED SAMPLE_USERS
           ELSE /\ SAMPLE_USERS' = SubSeq(SAMPLE_USERS, 1, userIndex - 1) \o
                                   SubSeq(SAMPLE_USERS, userIndex + 1,
                                          Len(SAMPLE_USERS))
                /\ response' = Some([status |-> 200,
                                     data |-> [message |-> "User deleted successfully"]])
        /\ UNCHANGED widget

-----------------------------------------------------------------------------
(* The specification of the component in every mode configuration.         *)

\* the page counts the caller supplies: no page, or MaxPageCount pages
PageCounts == {0, MaxPageCount}

ServerSideConfigs ==
    [enabled : BOOLEAN,
     pageCount : {0},
     loading : {FALSE},
     manualPagination : OptBool,
     manualSorting : OptBool,
     manualFiltering : OptBool,
     onPaginationChange : BOOLEAN,
     onSortingChange : BOOLEAN,
     onColumnFiltersChange : BOOLEAN]

StatusFilter ==
    [columnId |-> "status", type |-> "select", options |-> Statuses]

FilterColumns == {"status", "role", "createdAt"}

DataSets == {ScenarioRows, LongRows}

InitState ==
    /\ response = None
    /\ sorting = <<>>
    /\ columnFilters = [c \in FilterColumns |-> None]
    /\ pagination = [pageIndex |-> 0, pageSize |-> PageSize]
    /\ fired = {}
    /\ lastOp = Op("mount", "", FALSE)
    /\ columnVisibility = [c \in HideableColumns |-> None]
    /\ rowSelection = {}
    /\ actionCalls = <<>>
    /\ inFlight = <<>>
    /\ thrown = FALSE
    /\ passed = <<>>
    /\ SAMPLE_USERS = SampleUsers(NumSampleUsers)

Init ==
    /\ serverSide \in {None} \cup {Some(r) : r \in ServerSideConfigs}
    /\ enablePagination = TRUE
    /\ filters = <<StatusFilter>>
    /\ data \in DataSets
    /\ PlainCaller
    /\ InitState

Next ==
    \/ \E c \in SortableColumns : ToggleSorting(c)
    \/ NextPage
    \/ PreviousPage
    \/ FirstPage
    \/ LastPage
    \/ \E i \in Rendered("select") :
        \E v \in {"all"} \cup {filters[i].options[k] : k \in 1..Len(filters[i].options)} :
            SelectChange(i, v)
    \/ \E d \in DataSets : SetData(d)
    \/ \E n \in PageCounts : SetPageCount(n)

Spec == Init /\ [][Next]_vars


-----------------------------------------------------------------------------
(* Properties of the mode gate and of the controller.                      *)

AllDelegated == manualPagination /\ manualSorting /\ manualFiltering

\* C1: a delegate callback is invoked only for a concern whose effective
\* delegate flag is true, over any sequence of pagination, sorting and filter
\* changes, even when the callback was supplied.
C1_CallbackOnlyWhenDelegated ==
    /\ "onPaginationChange" \in fired => manualPagination
    /\ "onSortingChange" \in fired => manualSorting
    /\ "onColumnFiltersChange" \in fired => manualFiltering

\* the effective flag of a concern, stated by cases on the configuration
EffectiveAsDocumented(flag, f) ==
    /\ serverSide = None => flag = FALSE
    /\ serverSide # None =>
        /\ Get(serverSide)[f] = Some(TRUE) => flag = TRUE
        /\ Get(serverSide)[f] = Some(FALSE) => flag = FALSE
        /\ Get(serverSide)[f] = None => flag = Get(serverSide).enabled

\* C2: the effective delegation flag of each concern equals its explicit
\* sub-flag when that is specified (an explicit false while enabled is true
\* included), and otherwise serverSide.enabled, false when there is no
\* serverSide configuration.
C2_EffectiveFlags ==
    /\ EffectiveAsDocumented(manualPagination, "manualPagination")
    /\ EffectiveAsDocumented(manualSorting, "manualSorting")
    /\ EffectiveAsDocumented(manualFiltering, "manualFiltering")

\* an explicit manualSorting = false overrides enabled = true, and the rows
\* are then sorted by the component
C2_Witness ==
    /\ serverSide # None
    /\ Get(serverSide).enabled
    /\ Get(serverSide).manualSorting = Some(FALSE)
    /\ Get(serverSide).manualFiltering = None
    /\ ~manualSorting
    /\ manualFiltering
    /\ sorting # <<>>
    /\ SortedRows # data

\* C3: with pagination, sorting and filtering all delegated, the rows
\* displayed (when not loading) are exactly the data array last supplied, in
\* the supplied order, after any sequence of local changes.
C3_DelegatedShowsData ==
    (AllDelegated /\ ~Loading) => RowModel = data

\* all three concerns delegated, a sort, a filter and a page change made, and
\* a data array supplied after them
C3_Witness ==
    /\ AllDelegated
    /\ ~Loading
    /\ sorting # <<>>
    /\ columnFilters["status"] # None
    /\ pagination.pageIndex > 0
    /\ lastOp.kind = "data"
    /\ data = LongRows
    /\ RowModel = LongRows

\* C4: with sorting delegated and filtering not delegated, a change of sort
\* order alone invokes the sorting callback (when one is supplied), does not
\* invoke the filtering callback, and leaves the filter values and the
\* locally filtered rows unchanged.
C4_SortAloneKeepsFilters ==
    (manualSorting /\ ~manualFiltering /\ lastOp.kind = "sort") =>
        /\ HasCallback("onSortingChange") => "onSortingChange" \in fired
        /\ "onColumnFiltersChange" \notin fired
        /\ columnFilters = lastOp.before.columnFilters
        /\ FilteredRows =
             FilteredRowsOf(lastOp.before.data, lastOp.before.columnFilters)

\* a sort change with sorting delegated, both callbacks supplied, and a local
\* filter that removes rows
C4_Witness ==
    /\ manualSorting
    /\ ~manualFiltering
    /\ lastOp.kind = "sort"
    /\ HasCallback("onColumnFiltersChange")
    /\ fired = {"onSortingChange"}
    /\ columnFilters["status"] # None
    /\ Len(FilteredRows) > 0
    /\ Len(FilteredRows) < Len(data)


-----------------------------------------------------------------------------
(* The specification of the filter controls: the three declarations of the *)
(* demo pages, with filtering local or delegated.                          *)

\* the largest getTime() of a bound picked in the calendar
MaxTime == 2

Times == 1..MaxTime

\* the values the calendar hands to onSelect: a range, or undefined
DateRangeValues ==
    {None} \cup
    {Some([from |-> f, to |-> t]) :
        f \in {None} \cup {Some(x) : x \in Times},
        t \in {None} \cup {Some(x) : x \in Times}}

\* the role filter, declared with the first two of the page's three options
RoleFilter ==
    [columnId |-> "role", type |-> "multiSelect", options |-> <<"Admin", "User">>]

CreatedAtFilter ==
    [columnId |-> "createdAt", type |-> "dateRange", options |-> <<>>]

Options(i) == {filters[i].options[k] : k \in 1..Len(filters[i].options)}

\* serverSide as the server-side page passes it
DelegatedConfig ==
    [enabled |-> TRUE, pageCount |-> 1, loading |-> FALSE,
     manualPagination |-> Some(TRUE), manualSorting |-> Some(TRUE),
     manualFiltering |-> Some(TRUE),
     onPaginationChange |-> TRUE, onSortingChange |-> TRUE,
     onColumnFiltersChange |-> TRUE]

\* the same with filtering kept local
LocalFilteringConfig == [DelegatedConfig EXCEPT !.manualFiltering = Some(FALSE)]

FilterDataSets == {ScenarioRows, BadDateRows}

InitFilters ==
    /\ serverSide \in {None, Some(DelegatedConfig), Some(LocalFilteringConfig)}
    /\ enablePagination = TRUE
    /\ filters = <<StatusFilter, RoleFilter, CreatedAtFilter>>
    /\ data \in FilterDataSets
    /\ PlainCaller
    /\ InitState

NextFilters ==
    \/ \E i \in Rendered("select") :
        \E v \in {"all"} \cup Options(i) : SelectChange(i, v)
    \/ \E i \in Rendered("multiSelect") :
        \E option \in Options(i) : MultiSelectToggle(i, option)
    \/ \E i \in Rendered("dateRange") :
        \E date \in DateRangeValues : DateRangeSelect(i, date)
    \/ \E i \in Rendered("dateRange") : DateRangeClear(i)
    \/ \E d \in FilterDataSets : SetData(d)

SpecFilters == InitFilters /\ [][NextFilters]_vars

-----------------------------------------------------------------------------
(* The specification of the mock endpoint: the records it starts with, the *)
(* queries of the server-side page and the records a client posts.         *)

NoParams == [key \in ParamKeys |-> None]

\* queries by age, paged
AgeRequests ==
    {[NoParams EXCEPT !.minAge = lo, !.maxAge = hi, !.page = page,
                        !.pageSize = size] :
        lo \in {None, Some("25"), Some("abc")},
        hi \in {None, Some("40"), Some("")},
        page \in {None, Some("1")},
        size \in {None, Some("2")}}

\* sorted queries, paged
SortRequests ==
    {[NoParams EXCEPT !.sortBy = Some(by), !.sortOrder = order, !.page = page,
                        !.pageSize = size] :
        by \in {"age", "role"},
        order \in {None, Some("asc"), Some("desc")},
        page \in {None, Some("1")},
        size \in {None, Some("2")}}

\* queries by the other filters
FilterRequests ==
    {[NoParams EXCEPT !.search = search, !.status = status, !.role = role,
                        !.roles = roles, !.startDate = startDate,
                        !.endDate = endDate] :
        search \in {None, Some(<<"U", "S", "E", "R", " ", "2">>)},
        status \in {None, Some("Active")},
        role \in {None, Some("Admin")},
        roles \in {None, Some(<<"Admin", "User">>)},
        startDate \in {None, Some("2024-01-02")},
        endDate \in {None, Some("2024-01-02"), Some("not-a-date")}}

Requests == AgeRequests \cup SortRequests \cup FilterRequests

\* the bodies posted: any age is accepted, and an id of the body is kept
Bodies ==
    [id : {None, Some(1)},
     name : {<<"N", "e", "w">>},
     email : {<<"n", "e", "w", "@", "e", "x", "a", "m", "p", "l", "e", ".", "c", "o", "m">>},
     role : {"User"},
     status : {"Active"},
     age : {22, 1000}]

\* new Date().toISOString().split('T')[0]
Todays == {DateStrings[3]}

InitApi ==
    /\ serverSide = None
    /\ enablePagination = TRUE
    /\ filters = <<>>
    /\ data = <<>>
    /\ PlainCaller
    /\ InitState

NextApi ==
    \/ \E searchParams \in Requests : GET(searchParams)
    \/ \E body \in Bodies : \E today \in Todays : POST(body, today)

SpecApi == InitApi /\ [][NextApi]_vars

-----------------------------------------------------------------------------
(* The specification of the endpoint under requests that write: records    *)
(* posted, updated and deleted, and the unfiltered query between them.     *)

\* the bodies of PUT: no id, the id of a record as a number or as a string,
\* an id of no record; a status or an age to change, or nothing
PutBodies ==
    [id : {None, Some(1), Some(NumSampleUsers + MaxPosts + 1)},
     quoted : BOOLEAN,
     status : {None, Some(Statuses[2])},
     age : {None, Some(99)},
     createdAt : {None}]

\* the id parameters of DELETE: none, not a number, of a record or not
DeleteIds == {None, Some("abc"), Some("1"), Some("2"), Some("10"), Some("40")}

\* the queries between the writes: every record, as stored or by age
CrudRequests ==
    {NoParams, [NoParams EXCEPT !.sortBy = Some("age"), !.sortOrder = Some("desc")]}

\* the bodies posted: with an id of their own or without
CrudBodies == {body \in Bodies : body.age = 22}

\* records are posted in the place of records deleted
NextCrud ==
    \/ \E searchParams \in CrudRequests : GET(searchParams)
    \/ \E body \in CrudBodies : \E today \in Todays :
        /\ Len(SAMPLE_USERS) < NumSampleUsers
        /\ POST(body, today)
    \/ \E body \in PutBodies : PUT(body)
    \/ \E id \in DeleteIds : DELETE(id)

SpecCrud == InitApi /\ [][NextCrud]_vars



-----------------------------------------------------------------------------
(* Properties of the filter predicates and of the filter controls.         *)

\* the elements of a sequence
Range(s) == {s[k] : k \in 1..Len(s)}

\* the elements of s at the indices of K, in the order of s
Restrict(s, K) ==
    LET idx(k) == CHOOSE i \in K : Cardinality({j \in K : j < i}) = k - 1
    IN  [k \in 1..Cardinality(K) |-> s[idx(k)]]

\* a cell of createdAt that is a date, and its time
IsDate(cell) == cell \in DOMAIN DayOf

\* a date within the bounds of a range, both included, an absent one open
WithinBounds(t, range) ==
    /\ range.from # None => t >= Get(range.from)
    /\ range.to # None => t <= Get(range.to)

HasBound(range) == range.from # None \/ range.to # None

\* what each declared kind of filter asks of a row, stated on its fields
Documented(c, row, v) ==
    CASE c = "status" -> row.status = v
      [] c = "role" -> v = <<>> \/ row.role \in Range(v)
      [] c = "createdAt" ->
            HasBound(v) => (IsDate(row.createdAt) /\ WithinBounds(DayOf[row.createdAt], v))

\* the lone filter of column c
OnlyFilter(c) == [d \in FilterColumns |-> IF d = c THEN columnFilters[c] ELSE None]

\* C5: with filtering not delegated, a row is kept if and only if every
\* active filter's predicate passes for it; the kept rows keep their relative
\* order, and with no filter left the full row set is back.
C5_AndSemantics ==
    ~manualFiltering =>
        /\ FilteredRows =
            SelectSeq(data, LAMBDA row :
                \A c \in ActiveFilters : Documented(c, row, Get(columnFilters[c])))
        /\ ActiveFilters = {} => FilteredRows = data

\* two filters active at once, one row failing only the first and another
\* only the second
C5_Witness ==
    /\ ~manualFiltering
    /\ data = ScenarioRows
    /\ columnFilters["status"] = Some("Active")
    /\ columnFilters["role"] # None
    /\ columnFilters["createdAt"] # None
    /\ FilteredRows = <<ScenarioRows[3]>>
    /\ FilteredRowsOf(data, OnlyFilter("createdAt")) = <<ScenarioRows[2], ScenarioRows[3]>>
    /\ FilteredRowsOf(data, OnlyFilter("role")) = <<ScenarioRows[1], ScenarioRows[3]>>

\* C6: after a select is set back to "all", the last ticked multi-select
\* option is unticked, or a date range is cleared, the column's filter value
\* is absent (not an empty value) and every row passes that column's filter.
C6_ClearedMeansAbsent ==
    lastOp.cleared =>
        /\ columnFilters[lastOp.col] = None
        /\ FilteredRowsOf(data, OnlyFilter(lastOp.col)) = data

\* the last ticked option unticked with filtering local, another filter
\* still at work
C6_Witness ==
    /\ ~manualFiltering
    /\ lastOp.kind = "multiSelect"
    /\ lastOp.cleared
    /\ lastOp.before.columnFilters["role"] = Some(<<"User">>)
    /\ columnFilters["role"] = None
    /\ columnFilters["status"] = Some("Active")
    /\ Len(FilteredRows) < Len(data)

\* C7: the multi-select predicate includes every row when the filter value
\* is empty or absent, and otherwise a row if and only if its value is a
\* member of the filter value; over roles Admin, User, Admin the filter
\* ["Admin"] yields the two Admin rows in their order.
C7_MultiSelect ==
    /\ \A i \in 1..Len(data) :
        /\ multiSelectFilter(data[i], "role", None)
        /\ multiSelectFilter(data[i], "role", Some(<<>>))
        /\ columnFilters["role"] # None =>
            (multiSelectFilter(data[i], "role", columnFilters["role"])
                <=> data[i].role \in Range(Get(columnFilters["role"])))
    /\ (/\ ~manualFiltering
        /\ data = ScenarioRows
        /\ columnFilters = [OnlyFilter("role") EXCEPT !["role"] = Some(<<"Admin">>)])
        => FilteredRows = <<ScenarioRows[1], ScenarioRows[3]>>

\* the scenario: Admin ticked over the three rows
C7_Witness ==
    /\ ~manualFiltering
    /\ data = ScenarioRows
    /\ lastOp.kind = "multiSelect"
    /\ columnFilters["role"] = Some(<<"Admin">>)
    /\ columnFilters["status"] = None
    /\ columnFilters["createdAt"] = None
    /\ FilteredRows = <<ScenarioRows[1], ScenarioRows[3]>>

\* C8: the date-range predicate is inclusive on both bounds and open on a
\* side whose bound is absent: a row dated at from or at to is included, one
\* before from or after to is excluded.
C8_DateRangeInclusive ==
    \A i \in 1..Len(data) : \A v \in DateRangeValues :
        (v # None /\ HasBound(Get(v)) /\ IsDate(data[i].createdAt)) =>
            (dateRangeFilter(data[i], "createdAt", v)
                <=> WithinBounds(DayOf[data[i].createdAt], Get(v)))

\* a range picked from and to the date of the second row: that row alone is
\* displayed
C8_Witness ==
    /\ ~manualFiltering
    /\ data = ScenarioRows
    /\ lastOp.kind = "dateRange"
    /\ columnFilters["createdAt"] = Some([from |-> Some(2), to |-> Some(2)])
    /\ columnFilters["status"] = None
    /\ columnFilters["role"] = None
    /\ FilteredRows = <<ScenarioRows[2]>>

-----------------------------------------------------------------------------
(* Properties of the endpoint's filters.                                   *)

\* the age bounds of a query that are numbers
AgeBounds == {None} \cup {Some(str) : str \in DOMAIN IntOf}

\* C10 as claimed: the age filter keeps exactly the records whose age lies
\* within the bounds given, both included, a side whose bound is absent
\* being open.
C10_NumericWithinBounds ==
    \A lo \in AgeBounds : \A hi \in AgeBounds :
        (lo # None \/ hi # None) =>
            filterUsers(SAMPLE_USERS, [NoParams EXCEPT !.minAge = lo, !.maxAge = hi])
            = Restrict(SAMPLE_USERS, {i \in 1..Len(SAMPLE_USERS) :
                /\ lo # None => SAMPLE_USERS[i].age >= IntOf[Get(lo)]
                /\ hi # None => SAMPLE_USERS[i].age <= IntOf[Get(hi)]})


-----------------------------------------------------------------------------
(* The specification of the component in the modes of the demo pages and   *)
(* their neighbours: no serverSide prop, everything delegated, pagination  *)
(* alone kept local, and a serverSide prop that delegates nothing.         *)

\* sorting and filtering delegated, pagination local
LocalPaginationConfig ==
    [DelegatedConfig EXCEPT !.manualPagination = Some(FALSE)]

\* a serverSide prop with enabled false and no manual flag: nothing delegated
DisabledConfig ==
    [DelegatedConfig EXCEPT !.enabled = FALSE, !.manualPagination = None,
                            !.manualSorting = None, !.manualFiltering = None]

InitModes ==
    /\ serverSide \in {None, Some(DelegatedConfig), Some(LocalPaginationConfig),
                       Some(DisabledConfig)}
    /\ enablePagination = TRUE
    /\ filters = <<StatusFilter>>
    /\ data \in DataSets
    /\ PlainCaller
    /\ InitState

SpecModes == InitModes /\ [][Next]_vars

-----------------------------------------------------------------------------
(* The specification of the binder: the component rendered with every      *)
(* short list of filter declarations, over the columns of the demo pages.  *)

\* the longest list of declarations
MaxFilters == 2

FilterTypes == {"text", "select", "multiSelect", "dateRange", "number"}

\* declarations on a column with an accessorKey, on the column with an id,
\* and on a column there is not
Declarations ==
    [columnId : {"status", "age", "actions", "missing"},
     type : FilterTypes,
     options : {<<>>}]

FilterLists == UNION {[1..n -> Declarations] : n \in 0..MaxFilters}

InitBinder ==
    /\ serverSide = None
    /\ enablePagination = TRUE
    /\ filters \in FilterLists
    /\ data = ScenarioRows
    /\ PlainCaller
    /\ InitState

\* the next render has one declaration more, or the last one less
NextBinder ==
    \/ \E d \in Declarations :
        Len(filters) < MaxFilters /\ SetFilters(Append(filters, d))
    \/ Len(filters) > 0 /\ SetFilters(SubSeq(filters, 1, Len(filters) - 1))

SpecBinder == InitBinder /\ [][NextBinder]_vars

-----------------------------------------------------------------------------
(* Properties of pagination, sorting and the page count.                   *)

\* the rows of the slicing scenario, by their position
CountedRows(n) == [k \in 1..n |-> [id |-> k]]

\* C11: with pagination enabled and not delegated, the displayed rows of page
\* index p and page size s are the rows p*s up to but excluding p*s+s of the
\* filtered and sorted rows; over 25 rows with s = 10 page 0 gives rows 0..9,
\* page 2 gives rows 20..24, and a page beyond the last is empty.
C11_PageSlicing ==
    /\ (enablePagination /\ ~manualPagination) =>
        \A rows \in {SortedRows} : \A shown \in {RowModel} :
            LET p == pagination.pageIndex
                s == pagination.pageSize
            IN  /\ Len(shown) = Max(0, Min(s, Len(rows) - p * s))
                /\ \A k \in 1..Len(shown) : shown[k] = rows[p * s + k]
    /\ \A rows \in {CountedRows(25)} :
        /\ PageSlice(rows, 0, 10) = SubSeq(rows, 1, 10)
        /\ PageSlice(rows, 2, 10) = SubSeq(rows, 21, 25)
        /\ PageSlice(rows, 3, 10) = <<>>

\* the second page of the long data set: the rows beyond one page
C11_Witness ==
    /\ enablePagination /\ ~manualPagination
    /\ data = LongRows
    /\ lastOp.kind = "page"
    /\ pagination.pageIndex = 1
    /\ Len(RowModel) = ExtraRows
    /\ RowModel[1] = SortedRows[PageSize + 1]

\* some concern is delegated
AnyDelegated == manualPagination \/ manualSorting \/ manualFiltering

\* C12 as claimed: the page count is serverSide.pageCount when some concern
\* is delegated; when none is, the page count shown, and used to enable the
\* next-page control, is ceil(filteredRowCount / pageSize).
C12_PageCountSource ==
    /\ AnyDelegated => getPageCount = Get(serverSide).pageCount
    /\ ~AnyDelegated =>
        \A derived \in {Ceil(Len(FilteredRows), pagination.pageSize)} :
            /\ getPageCount = derived
            /\ getCanNextPage <=> pagination.pageIndex < derived - 1

\* the first position of a record in a sequence
PositionIn(seq, u) == CHOOSE k \in 1..Len(seq) : seq[k] = u

-----------------------------------------------------------------------------
(* Properties of the binder and of the local-only state.                   *)

BoundTypes == {"select", "multiSelect", "dateRange"}

\* a column whose identifier, id or else accessorKey, is the columnId of a
\* select, multiSelect or dateRange declaration
Referenced(column) ==
    \E i \in 1..Len(filters) :
        /\ filters[i].type \in BoundTypes
        /\ IF column.id # None THEN column.id = Some(filters[i].columnId)
           ELSE column.accessorKey = Some(filters[i].columnId)

\* a column with both an id and an accessorKey
BothIdsColumn ==
    [id |-> Some("actions"), accessorKey |-> Some("status"), filterFn |-> "auto"]

\* C14: binding keeps the number and the positions of the columns and
\* changes nothing but the filter predicate, and that only of a column whose
\* identifier (id, else accessorKey) matches a select, multiSelect or
\* dateRange declaration; a declaration whose columnId matches no column
\* changes no column and renders no control.
C14_BinderFrame ==
    /\ Len(processedColumns) = Len(columns)
    /\ \A i \in 1..Len(columns) :
        /\ processedColumns[i].id = columns[i].id
        /\ processedColumns[i].accessorKey = columns[i].accessorKey
        /\ ~Referenced(columns[i]) => processedColumns[i] = columns[i]
        /\ Referenced(columns[i]) =>
            processedColumns[i].filterFn \in {"exactMatch", "multiSelect", "dateRange"}
    /\ ~Referenced(BothIdsColumn) => ProcessColumn(BothIdsColumn) = BothIdsColumn
    /\ Referenced(BothIdsColumn) => ProcessColumn(BothIdsColumn).filterFn # "auto"
    /\ \A i \in 1..Len(filters) :
        (\A k \in 1..Len(columns) :
            /\ columns[k].id # Some(filters[i].columnId)
            /\ columns[k].accessorKey # Some(filters[i].columnId))
        => i \notin Rendered(filters[i].type)

\* the component rendered anew with a select declared on a column there is
\* not and a date range on the column with an id: that column alone is bound
C14_Witness ==
    /\ lastOp.kind = "filters"
    /\ filters = << [columnId |-> "missing", type |-> "select", options |-> <<>>],
                    [columnId |-> "actions", type |-> "dateRange", options |-> <<>>] >>
    /\ Rendered("select") = {}
    /\ Rendered("dateRange") = {2}
    /\ processedColumns[7].filterFn = "dateRange"
    /\ \A i \in 1..6 : processedColumns[i] = columns[i]


-----------------------------------------------------------------------------
(* The specification of the server-side demo page: ServerSideUsersTable    *)
(* rendering the component over the mock endpoint.                         *)

\* seq without its k-th element
RemoveAt(seq, k) == SubSeq(seq, 1, k - 1) \o SubSeq(seq, k + 1, Len(seq))

\* fetchData from its await on, for the k-th fetch in flight: the response
\* arrives, setData, setTotalPages, and finally setLoading(false)
Respond(k) ==
    /\ caller = "ServerSideUsersTable"
    /\ k \in 1..Len(inFlight)
    /\ \E result \in {ApiResponse(inFlight[k])} :
        /\ result # None
        /\ response' = result
        /\ data' = Get(result).data
        /\ serverSide' = Some([Get(serverSide) EXCEPT
                !.pageCount = Get(result).pagination.totalPages,
                !.loading = FALSE])
    /\ inFlight' = RemoveAt(inFlight, k)
    /\ fired' = {}
    /\ passed' = <<>>
    /\ thrown' = FALSE
    /\ actionCalls' = <<>>
    /\ lastOp' = Op("response", "", FALSE)
    /\ UNCHANGED <<enablePagination, filters, selectionProps, caller, throwing,
                   sorting, columnFilters, pagination, local, SAMPLE_USERS>>

\* fetchData without its finally block: a fetch that rejects leaves loading
FetchFails_NoFinally(k) ==
    /\ caller = "ServerSideUsersTable"
    /\ k \in 1..Len(inFlight)
    /\ inFlight' = RemoveAt(inFlight, k)
    /\ fired' = {}
    /\ passed' = <<>>
    /\ thrown' = FALSE
    /\ actionCalls' = <<>>
    /\ lastOp' = Op("failure", "", FALSE)
    /\ UNCHANGED <<serverSide, otherProps, sorting, columnFilters, pagination,
                   local, server>>

\* fetchData from its await on, for a fetch that rejects: the catch block
\* logs, and finally setLoading(false)
FetchFails(k) ==
    /\ caller = "ServerSideUsersTable"
    /\ k \in 1..Len(inFlight)
    /\ serverSide' = Some([Get(serverSide) EXCEPT !.loading = FALSE])
    /\ inFlight' = RemoveAt(inFlight, k)
    /\ fired' = {}
    /\ passed' = <<>>
    /\ thrown' = FALSE
    /\ actionCalls' = <<>>
    /\ lastOp' = Op("failure", "", FALSE)
    /\ UNCHANGED <<otherProps, sorting, columnFilters, pagination, local,
                   server>>

\* the filters of the page
NameFilter == [columnId |-> "name", type |-> "text", options |-> <<>>]

PageFilters == <<NameFilter, StatusFilter, RoleFilter, CreatedAtFilter>>

\* the action buttons of the page, by label and disabled function
DeleteSelected == [label |-> "Delete Selected", disabled |-> Some("isEmpty")]
Export == [label |-> "Export", disabled |-> None]
SendEmail == [label |-> "Send Email", disabled |-> None]

\* the texts typed in the search box
SearchTexts == {<<>>, <<"2">>}

\* the page after its first render and the effect of that render: nothing
\* to show yet, and the first fetch in flight
PageMounted ==
    /\ response = None
    /\ caller = "ServerSideUsersTable"
    /\ throwing = {}
    /\ thrown = FALSE
    /\ passed = <<>>
    /\ serverSide = Some([DelegatedConfig EXCEPT !.loading = TRUE, !.pageCount = 0])
    /\ enablePagination = TRUE
    /\ filters = PageFilters
    /\ data = <<>>
    /\ enableRowSelection = TRUE
    /\ enableColumnVisibility = TRUE
    /\ actionButtons = <<DeleteSelected, Export, SendEmail>>
    /\ sorting = <<>>
    /\ columnFilters = [c \in FilterColumns \cup {"name"} |-> None]
    /\ pagination = [pageIndex |-> 0, pageSize |-> PageSize]
    /\ fired = {}
    /\ lastOp = Op("mount", "", FALSE)
    /\ columnVisibility = [c \in HideableColumns |-> None]
    /\ rowSelection = {}
    /\ actionCalls = <<>>
    /\ inFlight = <<URLSearchParams(pagination, sorting, columnFilters)>>

\* the page over the records the endpoint starts with
InitPage ==
    /\ PageMounted
    /\ SAMPLE_USERS = SampleUsers(NumSampleUsers)

\* the events of the page: the search box, the Status select, the header
\* checkbox, "Delete Selected", and the fetches completing in any order
NextPageSpec ==
    \/ \E i \in Rendered("text") : \E v \in SearchTexts : TextChange(i, v)
    \/ \E i \in Rendered("select") :
        \E v \in {"all"} \cup Options(i) : SelectChange(i, v)
    \/ ToggleAllPageRowsSelected
    \/ \E i \in {1} : ClickAction(i)
    \/ \E k \in 1..Len(inFlight) : Respond(k)
    \/ \E k \in 1..Len(inFlight) : FetchFails(k)

SpecPage == InitPage /\ [][NextPageSpec]_vars

-----------------------------------------------------------------------------
(* The specification of row selection, column visibility and the bulk      *)
(* actions: the component with enableRowSelection and two action buttons,  *)
(* without a serverSide prop, with everything delegated, and with the      *)
(* filtering alone kept local.                                             *)

\* the column toggled in the Columns menu
ToggledColumns == {"age"}

\* the rows of the scenarios, and the array that follows when the first of
\* them is gone: other rows at the same positions
SelectionDataSets == {ScenarioRows, Tail(ScenarioRows)}

InitSelection ==
    /\ serverSide \in {None, Some(DelegatedConfig), Some(LocalFilteringConfig)}
    /\ enablePagination = TRUE
    /\ filters = <<StatusFilter>>
    /\ data \in SelectionDataSets
    /\ caller = "other"
    /\ throwing = {}
    /\ enableRowSelection = TRUE
    /\ enableColumnVisibility = TRUE
    /\ actionButtons = <<DeleteSelected, Export>>
    /\ InitState

NextSelection ==
    \/ \E k \in 1..Len(RowModel) : ToggleSelected(k)
    \/ ToggleAllPageRowsSelected
    \/ \E c \in ToggledColumns : ToggleVisibility(c)
    \/ \E i \in 1..Len(actionButtons) : ClickAction(i)
    \/ \E c \in SortableColumns : ToggleSorting(c)
    \/ \E i \in Rendered("select") :
        \E v \in {"all"} \cup Options(i) : SelectChange(i, v)
    \/ \E d \in SelectionDataSets : SetData(d)

SpecSelection == InitSelection /\ [][NextSelection]_vars

-----------------------------------------------------------------------------
(* The specification of the component under callbacks that throw: every    *)
(* concern delegated or the filtering kept local, each of the three        *)
(* callbacks throwing or returning.                                        *)

CallbackNames == {"onPaginationChange", "onSortingChange", "onColumnFiltersChange"}

InitThrowing ==
    /\ serverSide \in {Some([c EXCEPT !.pageCount = MaxPageCount]) :
                            c \in {DelegatedConfig, LocalFilteringConfig}}
    /\ enablePagination = TRUE
    /\ filters = <<StatusFilter>>
    /\ data = ScenarioRows
    /\ caller = "other"
    /\ throwing \in SUBSET CallbackNames
    /\ enableRowSelection = TRUE
    /\ enableColumnVisibility = TRUE
    /\ actionButtons = <<>>
    /\ InitState

NextThrowing ==
    \/ \E c \in SortableColumns : ToggleSorting(c)
    \/ \E i \in Rendered("select") :
        \E v \in {"all"} \cup Options(i) : SelectChange(i, v)
    \/ NextPage
    \/ PreviousPage
    \/ ToggleAllPageRowsSelected
    \/ \E c \in ToggledColumns : ToggleVisibility(c)

SpecThrowing == InitThrowing /\ [][NextThrowing]_vars

-----------------------------------------------------------------------------
(* Properties of the local-only state, of loading and of the bulk actions. *)

\* C15: a column-visibility change or a row-selection change invokes none
\* of the serverSide callbacks and leaves sorting, columnFilters and
\* pagination as it found them, in every mode and configuration.
C15_VisibilityAndSelectionLocal ==
    lastOp.kind \in {"visibility", "selection"} =>
        /\ fired = {}
        /\ sorting = lastOp.before.sorting
        /\ columnFilters = lastOp.before.columnFilters
        /\ pagination = lastOp.before.pagination

\* a row is ticked where every concern is delegated with its callback,
\* a sort and a filter being set
C15_Witness ==
    /\ lastOp.kind = "selection"
    /\ lastOp.col = "row"
    /\ rowSelection # {}
    /\ HasCallback("onPaginationChange")
    /\ sorting # <<>>
    /\ columnFilters["status"] # None

\* C16: while serverSide.loading is true the table body is exactly pageSize
\* placeholder rows, whatever the data, the sort, the filters and the
\* selection are; rows of the data are shown only when loading is false.
C16_PlaceholdersWhileLoading ==
    \A body \in {TableBody} :
        /\ Loading =>
            /\ Len(body) = pagination.pageSize
            /\ \A k \in 1..Len(body) : body[k] = Placeholder
        /\ (\E k \in 1..Len(body) : body[k].kind = "row") => ~Loading
        /\ (~Loading /\ Len(data) > 0) =>
            /\ Len(body) = Len(data)
            /\ \A k \in 1..Len(body) : body[k].original = Some(data[k])

\* a fetch is in flight over rows already shown, some of them selected, a
\* filter being set
C16_Witness ==
    /\ Loading
    /\ Len(data) > 0
    /\ Len(data) # pagination.pageSize
    /\ rowSelection # {}
    /\ columnFilters["status"] # None
    /\ Len(TableBody) = PageSize

\* the events of the five filter controls
FilterEvents == {"text", "select", "number", "multiSelect", "dateRange", "dateRangeClear"}

\* C17: while serverSide.loading is true every filter control is disabled:
\* no filter event finds the component loading, so that columnFilters does
\* not change and onColumnFiltersChange is not called during a load.
C17_FiltersDisabledWhileLoading ==
    lastOp.kind \in FilterEvents => ~lastOp.before.loading

\* C18: in server-side mode filter input is debounced: of two filter changes
\* made one directly after the other, the first being notified, the second
\* is not notified on its own and starts no fetch of its own.
C18_FilterInputDebounced ==
    [][(/\ isServerSide
        /\ lastOp.kind \in FilterEvents
        /\ "onColumnFiltersChange" \in fired
        /\ lastOp'.kind \in FilterEvents)
       => (/\ "onColumnFiltersChange" \notin fired'
           /\ Len(inFlight') <= Len(inFlight))]_vars

\* the rows of data at the positions idx, in the order of data
RowsAt(idx) ==
    LET ks == SelectSeq([k \in 1..Len(data) |-> k], LAMBDA k : k \in idx)
    IN  [j \in 1..Len(ks) |-> data[ks[j]]]

\* the positions in data of the rows the selection state marks
MarkedPositions == {k \in 1..Len(data) : (k - 1) \in rowSelection}

-----------------------------------------------------------------------------
(* The specification of the five slots of state: a table that sorts,       *)
(* filters and pages by itself or delegates, with the events of every      *)
(* change handler.                                                         *)

\* the rows whose checkbox is ticked
TickedRows == {1}

InitSlots ==
    /\ serverSide \in {None} \cup
            {Some([c EXCEPT !.pageCount = MaxPageCount]) :
                c \in {DelegatedConfig, LocalFilteringConfig}}
    /\ enablePagination = TRUE
    /\ filters = <<StatusFilter>>
    /\ data \in SelectionDataSets
    /\ caller = "other"
    /\ throwing = {}
    /\ enableRowSelection = TRUE
    /\ enableColumnVisibility = TRUE
    /\ actionButtons = <<>>
    /\ InitState

NextSlots ==
    \/ \E c \in SortableColumns : ToggleSorting(c)
    \/ \E i \in Rendered("select") :
        \E v \in {"all"} \cup Options(i) : SelectChange(i, v)
    \/ NextPage
    \/ PreviousPage
    \/ \E d \in SelectionDataSets : SetData(d)
    \/ \E k \in TickedRows \cap (1..Len(RowModel)) : ToggleSelected(k)
    \/ \E c \in ToggledColumns : ToggleVisibility(c)

SpecSlots == InitSlots /\ [][NextSlots]_vars

-----------------------------------------------------------------------------
(* Changes applied one after another before the component renders again.   *)
(* The table hands each handler an updater, a function of the previous      *)
(* state; the handler gives it to its setter, which React applies to the    *)
(* state the change before it left, and calls the callback with             *)
(* updater(state) of the state the last render saw.                         *)

\* the number of changes applied before the component renders again
MaxBatch == 2

Change(slot, col, desc, value, step) ==
    [slot |-> slot, col |-> col, desc |-> desc, value |-> value, step |-> step]

\* the changes the controls of one render can make: the sort button of a
\* column, the Status select, a checkbox of the Role menu, Previous and Next
Changes ==
    LET current == Coalesce(columnFilters["role"], <<>>)
        option == Roles[1]
        column == CHOOSE c \in SortableColumns : TRUE
    IN  << Change("sorting", column, getIsSorted(column) = "asc", None, 0),
           Change("columnFilters", "status", FALSE, None, 0),
           Change("columnFilters", "status", FALSE, Some(Statuses[1]), 0),
           Change("columnFilters", "role", FALSE,
                  IF Contains(current, option)
                  THEN MultiSelectValue(Without(current, option))
                  ELSE Some(Append(current, option)), 0),
           Change("pagination", "", FALSE, None, -1),
           Change("pagination", "", FALSE, None, 1) >>

\* the updater of a change, applied to a state of its slot
Updater(u, old) ==
    CASE u.slot = "sorting" -> <<[id |-> u.col, desc |-> u.desc]>>
      [] u.slot = "columnFilters" -> [old EXCEPT ![u.col] = u.value]
      [] u.slot = "pagination" ->
            [old EXCEPT !.pageIndex = ClampPageIndex(old.pageIndex + u.step)]

\* setX(updater) of every change of a slot in turn: React applies each
\* updater to the result of the one before
RECURSIVE Queued(_, _, _)
Queued(us, slot, old) ==
    IF us = <<>> THEN old
    ELSE Queued(Tail(us), slot,
                IF Head(us).slot = slot THEN Updater(Head(us), old) ELSE old)

\* the state of a slot the handlers of this render close over
Rendered_State(slot) ==
    CASE slot = "sorting" -> sorting
      [] slot = "columnFilters" -> columnFilters
      [] slot = "pagination" -> pagination

CallbackOf(slot) ==
    CASE slot = "sorting" -> "onSortingChange"
      [] slot = "columnFilters" -> "onColumnFiltersChange"
      [] slot = "pagination" -> "onPaginationChange"

\* if (serverSide?.onXChange) serverSide.onXChange(updater(x)), of each
\* change in turn
BatchCalls(us) ==
    SelectSeq([k \in 1..Len(us) |->
                [callback |-> CallbackOf(us[k].slot),
                 value |-> Updater(us[k], Rendered_State(us[k].slot))]],
              LAMBDA call : HasCallback(call.callback))

\* the changes us reach the handlers before the component renders again;
\* the render that follows computes the rows anew, and resets the page
\* index, as after a single change
Batch(us) ==
    LET paged == Queued(us, "pagination", pagination)
        recomputed ==
            \E k \in 1..Len(us) :
                \/ us[k].slot = "sorting" /\ ~manualSorting
                \/ us[k].slot = "columnFilters" /\ ~manualFiltering
        reset == [paged EXCEPT !.pageIndex = ClampPageIndex(0)]
    IN  /\ enablePagination
        /\ paged.pageIndex <= MaxPageIndex + 1
        /\ sorting' = Queued(us, "sorting", sorting)
        /\ columnFilters' = Queued(us, "columnFilters", columnFilters)
        /\ IF autoResetPageIndex(recomputed)
           THEN /\ pagination' = reset
                /\ Invoke(BatchCalls(us) \o Calls(PaginationCallbacks, reset), <<>>)
           ELSE /\ pagination' = paged
                /\ Invoke(BatchCalls(us), <<>>)
        /\ lastOp' = Op("batch", "", FALSE)
        /\ UNCHANGED <<otherProps, local, server>>

\* the changes of a batch, by their place among the changes there are
Batches == UNION {[1..n -> 1..Len(Changes)] : n \in 1..MaxBatch}

InitBatch ==
    /\ serverSide \in {Some([c EXCEPT !.pageCount = MaxPageCount + 1]) :
                            c \in {DelegatedConfig, LocalFilteringConfig}}
    /\ enablePagination = TRUE
    /\ filters = <<StatusFilter, RoleFilter>>
    /\ data = ScenarioRows
    /\ PlainCaller
    /\ InitState

NextBatch ==
    \E picked \in Batches :
        Batch([k \in 1..Len(picked) |-> Changes[picked[k]]])

SpecBatch == InitBatch /\ [][NextBatch]_vars

-----------------------------------------------------------------------------
(* The specification of the page over more records than one page holds:    *)
(* paging, sorting and the Status select, each change starting a fetch,    *)
(* and the responses arriving in any order.  No fetch fails.               *)

InitPaging ==
    /\ PageMounted
    /\ SAMPLE_USERS = SampleUsers(PageSize + ExtraRows)

NextPaging ==
    \/ NextPage
    \/ PreviousPage
    \/ \E c \in SortableColumns : ToggleSorting(c)
    \/ \E i \in Rendered("select") :
        \E v \in {"all"} \cup Options(i) : SelectChange(i, v)
    \/ \E k \in 1..Len(inFlight) : Respond(k)

SpecPaging ==
    /\ InitPaging
    /\ [][NextPaging]_vars

-----------------------------------------------------------------------------
(* Properties of the state slots and of the values the callbacks get.      *)

\* the events that end in each change handler
SortEvents == {"sort"}
PageEvents == {"page"}

\* C21: at mount sorting and columnFilters are empty, pagination is page 0
\* of size 10, columnVisibility and rowSelection are empty; afterwards each
\* of the five changes only in an event that ends in its own change handler
\* (for pagination: a paging control, or the reset of the page index the
\* table makes through onPaginationChange when it computes its rows anew);
\* and always pageIndex >= 0 and pageSize > 0.
C21_SlotsAndTheirHandlers ==
    /\ [](/\ lastOp.kind = "mount" =>
                /\ sorting = <<>>
                /\ \A c \in DOMAIN columnFilters : columnFilters[c] = None
                /\ pagination = [pageIndex |-> 0, pageSize |-> 10]
                /\ \A c \in DOMAIN columnVisibility : columnVisibility[c] = None
                /\ rowSelection = {}
           /\ pagination.pageIndex >= 0
           /\ pagination.pageSize > 0)
    /\ [][/\ sorting' # sorting => lastOp'.kind \in SortEvents
          /\ columnFilters' # columnFilters => lastOp'.kind \in FilterEvents
          /\ pagination' # pagination =>
                \/ lastOp'.kind \in PageEvents
                \/ /\ ~manualPagination
                   /\ lastOp'.kind \in SortEvents \cup FilterEvents \cup {"data"}
                   /\ pagination' = ResetPagination
          /\ columnVisibility' # columnVisibility => lastOp'.kind = "visibility"
          /\ rowSelection' # rowSelection => lastOp'.kind = "selection"]_vars

\* on the second page of a table that pages by itself, a row ticked and a
\* column hidden, a sort brings the page index back to 0
C21_Witness ==
    /\ lastOp.kind = "sort"
    /\ lastOp.before.pagination.pageIndex = 1
    /\ pagination.pageIndex = 0
    /\ rowSelection # {}
    /\ \E c \in DOMAIN columnVisibility : columnVisibility[c] # None

\* the state a callback is about
StateOf(callback) ==
    CASE callback = "onSortingChange" -> sorting
      [] callback = "onColumnFiltersChange" -> columnFilters
      [] callback = "onPaginationChange" -> pagination

\* C22: the value a serverSide callback is called with is the value the
\* state has after the change; where changes are applied one after another
\* before the component renders again, the last call of each callback is
\* made with the state all of them leave.
C22_CallbackGetsTheNewState ==
    \A k \in 1..Len(passed) :
        (\A j \in (k + 1)..Len(passed) : passed[j].callback # passed[k].callback)
            => passed[k].value = StateOf(passed[k].callback)

-----------------------------------------------------------------------------
(* Properties of the page and its fetches.                                 *)

\* the response to a request made with the state the page has now
CurrentResponse == Get(ApiResponse(URLSearchParams(pagination, sorting, columnFilters)))

\* C23: once every fetch in flight has completed, whatever the order of the
\* responses, the data and the page count handed to the component are those
\* of the response to the request issued last, the one made with the
\* pagination, sorting and filters the page has now.
C23_LastIssuedRequestWins ==
    inFlight = <<>> =>
        \A current \in {CurrentResponse} :
            /\ data = current.data
            /\ PageCountOption = current.pagination.totalPages

\* C24: a fetch of the page that fails (the request rejects, or the body
\* is not JSON) leaves data, totalPages and totalItems as they were, throws
\* nothing out of fetchData, and sets loading to false.
C24_FailedFetchKeepsData ==
    lastOp.kind = "failure" =>
        /\ data = lastOp.before.data
        /\ PageCountOption = lastOp.before.pageCount
        /\ TotalItems = lastOp.before.totalItems
        /\ ~thrown
        /\ ~Loading

\* a fetch fails after an earlier one has brought rows, while loading
C24_Witness ==
    /\ lastOp.kind = "failure"
    /\ lastOp.before.loading
    /\ data # <<>>
    /\ PageCountOption > 0
    /\ TotalItems > 0

\* C25: in the page, loading is true in every state in which a fetch is
\* still in flight, however many overlap and in whatever order they end.
C25_LoadingWhileInFlight == inFlight # <<>> => Loading

\* C26: with pagination delegated, once the fetches have completed and the
\* page shows the response to its current state, a positive page count
\* exceeds the page index, and the page of a non-empty result is not empty.
C26_PageIndexInRange ==
    (/\ manualPagination
     /\ inFlight = <<>>
     /\ PageCountOption > 0) =>
        \A current \in {CurrentResponse} :
            (data = current.data /\ PageCountOption = current.pagination.totalPages)
                => /\ pagination.pageIndex < PageCountOption
                   /\ data # <<>>

-----------------------------------------------------------------------------
(* Properties of row selection across data arrays.                         *)

\* the rows the selection marked in the data array an event found
MarkedBefore ==
    {lastOp.before.data[k] :
        k \in {j \in 1..Len(lastOp.before.data) : (j - 1) \in rowSelection}}

\* C27: after the caller supplies another data array, the rows reported as
\* selected, which a click passes to a bulk action, are rows that were
\* selected in the array before: rows the user selected, not the rows now
\* at their positions.
C27_SelectionFollowsRows ==
    lastOp.kind = "data" =>
        \A k \in 1..Len(selectedData) : selectedData[k] \in MarkedBefore

-----------------------------------------------------------------------------
(* Properties of the endpoint's writes.                                    *)

\* C28: no two records of SAMPLE_USERS have the same id, after any POST,
\* PUT and DELETE requests.
C28_IdsUnique ==
    \A i \in 1..Len(SAMPLE_USERS) : \A j \in 1..Len(SAMPLE_USERS) :
        SAMPLE_USERS[i].id = SAMPLE_USERS[j].id => i = j

\* the positions at which the records differ from those of the next state
Changed == {k \in 1..Len(SAMPLE_USERS) :
                k > Len(SAMPLE_USERS') \/ SAMPLE_USERS'[k] # SAMPLE_USERS[k]}

\* the ids of the records
Ids == {SAMPLE_USERS[k].id : k \in 1..Len(SAMPLE_USERS)}

\* C29: a PUT or a DELETE for an id no record has answers 404 and leaves
\* the records as they were; a PUT that succeeds changes fields other than
\* id, of the first record with the id of the body and of no other; a
\* DELETE that succeeds removes that one record, the others keeping their
\* order; a GET changes neither the records nor their order.
C29_WritesTouchOneRecord ==
    [][/\ \A body \in PutBodies : PUT(body) =>
            \A id \in {IF body.quoted THEN None ELSE body.id} :
                IF id = None \/ Get(id) \notin Ids
                THEN /\ Get(response').status = 404
                     /\ SAMPLE_USERS' = SAMPLE_USERS
                ELSE /\ Get(response').status = 200
                     /\ Len(SAMPLE_USERS') = Len(SAMPLE_USERS)
                     /\ Changed \subseteq {findIndex(id)}
                     /\ \A k \in 1..Len(SAMPLE_USERS) :
                            SAMPLE_USERS'[k].id = SAMPLE_USERS[k].id
                     /\ SAMPLE_USERS'[findIndex(id)] =
                            Merged(SAMPLE_USERS[findIndex(id)], body)
       /\ \A param \in DeleteIds : DELETE(param) =>
            \A id \in {parseInt(IF param \in {None, Some("")}
                                 THEN "0" ELSE Get(param))} :
                IF id = None \/ Get(id) \notin Ids
                THEN /\ Get(response').status = 404
                     /\ SAMPLE_USERS' = SAMPLE_USERS
                ELSE /\ Get(response').status = 200
                     /\ SAMPLE_USERS[findIndex(id)].id = Get(id)
                     /\ SAMPLE_USERS' = RemoveAt(SAMPLE_USERS, findIndex(id))
       /\ \A searchParams \in CrudRequests : GET(searchParams) =>
            SAMPLE_USERS' = SAMPLE_USERS]_vars

\* a record has been updated, another deleted, and a request for an id no
\* record has is answered 404
C29_Witness ==
    /\ response # None
    /\ Get(response).status = 404
    /\ Len(SAMPLE_USERS) < NumSampleUsers
    /\ \E k \in 1..Len(SAMPLE_USERS) :
        SAMPLE_USERS[k].status # SampleUsers(NumSampleUsers)[SAMPLE_USERS[k].id].status

-----------------------------------------------------------------------------
(* Properties of the binder under several declarations on one column.      *)

\* the types declared on a column, whatever their order in the list
DeclaredTypes(columnId) ==
    {filters[i].type : i \in {j \in 1..Len(filters) : filters[j].columnId = columnId}}

\* the filter function of each type that binds one, in order of precedence
Precedence ==
    << [type |-> "select", filterFn |-> "exactMatch"],
       [type |-> "multiSelect", filterFn |-> "multiSelect"],
       [type |-> "dateRange", filterFn |-> "dateRange"] >>

\* the filter function of the first type in precedence among types
Preferred(types, default) ==
    LET hits == {k \in 1..Len(Precedence) : Precedence[k].type \in types}
    IN  IF hits = {} THEN default
        ELSE Precedence[CHOOSE k \in hits : \A j \in hits : k <= j].filterFn

\* C30: a column that several declarations name is bound to one filter
\* function, that of the select if there is one, else of the multiSelect,
\* else of the dateRange: a function of the set of types declared on the
\* column, not of their order; and binding the bound columns again, with the
\* same declarations, changes none of them.
C30_BinderPrecedence ==
    \A i \in 1..Len(columns) :
        /\ processedColumns[i].filterFn =
                Preferred(DeclaredTypes(Get(normalizedId(columns[i]))),
                          columns[i].filterFn)
        /\ ProcessColumn(processedColumns[i]) = processedColumns[i]

\* the status column is named by a dateRange, then by a multiSelect
\* declaration, or by a multiSelect and then by a select one
C30_Witness ==
    /\ lastOp.kind = "filters"
    /\ Len(filters) = 2
    /\ filters[1].columnId = "status"
    /\ filters[2].columnId = "status"
    /\ \/ /\ filters[1].type = "dateRange"
          /\ filters[2].type = "multiSelect"
          /\ processedColumns[4].filterFn = "multiSelect"
       \/ /\ filters[1].type = "multiSelect"
          /\ filters[2].type = "select"
          /\ processedColumns[4].filterFn = "exactMatch"

====
